---- MODULE Spec2Model ----
(***************************************************************************)
(* Moderation-notice relay of stream-rn-moderated-chat: the /webhook       *)
(* handler, the flag dedupe cache (flaggedCache / cacheTimes) and          *)
(* postNotice, as a state machine whose steps are the runs of JavaScript   *)
(* between two suspension points (await) of the handlers in flight.        *)
(* Spec and SpecLive run the handlers, SpecFlagMemory the cache alone,     *)
(* SpecNotice the composition of a notice (routing, preview, redact),      *)
(* SpecBootstrap the startup sequence.                                     *)
(***************************************************************************)
EXTENDS Integers, Sequences, FiniteSets, TLC

\* ---------------------------------------------------------------- bounds
\* Number of webhook calls, all of which may be in flight together.
NumHandlers == 2
\* Number of times the wall clock is observed to advance.
MaxTicks == 1
\* Longest conversation id given to the notice composition, in characters.
MaxCidLen == 4
\* Most pieces a message text given to the notice composition is made of.
MaxWords == 3

\* ------------------------------------------------------------- constants
FLAG_TTL_MS == 5 * 60 * 1000

\* A property that is missing from a payload (undefined / null / absent).
undefined == "undefined"

SYSTEM_BOT == "system-bot"

\* Date.now() of a running server is a positive number of milliseconds.
StartTimes == {1}
\* The clock is seen to advance by exactly the TTL window, or by just more.
TickSteps == {FLAG_TTL_MS, FLAG_TTL_MS + 1}

Handlers == 1..NumHandlers
Ids == {"m1", "m2"}

\* ------------------------------------------------------------------ text
\* A string is the sequence of its characters.
LowerCase == <<"a","b","c","d","e","f","g","h","i","j","k","l","m",
               "n","o","p","q","r","s","t","u","v","w","x","y","z">>
UpperCase == <<"A","B","C","D","E","F","G","H","I","J","K","L","M",
               "N","O","P","Q","R","S","T","U","V","W","X","Y","Z">>
Digits == {"0","1","2","3","4","5","6","7","8","9"}

\* \w of a JavaScript regular expression.
IsWordChar(c) ==
    \/ \E i \in 1..26 : c = LowerCase[i] \/ c = UpperCase[i]
    \/ c \in Digits
    \/ c = "_"

\* Case folding of the /i flag.
ToLower(c) ==
    IF \E i \in 1..26 : c = UpperCase[i]
    THEN LowerCase[CHOOSE i \in 1..26 : c = UpperCase[i]]
    ELSE c

\* The alternation (fuck|shit|bitch|asshole|dick|bastard|cunt).
PROFANITY_TOKENS ==
    { <<"f","u","c","k">>, <<"s","h","i","t">>, <<"b","i","t","c","h">>,
      <<"a","s","s","h","o","l","e">>, <<"d","i","c","k">>,
      <<"b","a","s","t","a","r","d">>, <<"c","u","n","t">> }

\* \b(tok)\b matches s at position i, ignoring case.
MatchAt(s, i, tok) ==
    LET j == i + Len(tok) - 1 IN
    /\ j <= Len(s)
    /\ \A k \in 1..Len(tok) : ToLower(s[i + k - 1]) = tok[k]
    /\ (i = 1 \/ ~IsWordChar(s[i - 1]))
    /\ (j = Len(s) \/ ~IsWordChar(s[j + 1]))

\* (variant: an empty alternative in the alternation, which matches any text)
PROFANITY_RE_emptyAlt(s) == TRUE
\* PROFANITY_RE.test(s)
PROFANITY_RE(s) ==
    \E tok \in PROFANITY_TOKENS : \E i \in 1..Len(s) : MatchAt(s, i, tok)

\* A text property: typeof, and the characters when it is a string.
Str(chars) == [typeof |-> "string", chars |-> chars]
NoText == [typeof |-> "undefined", chars |-> <<>>]

TextProfane == Str(<<"y","o","u"," ","f","u","c","k">>)
TextClean == Str(<<"h","e","l","l","o"," ","f","r","i","e","n","d">>)

\* ----------------------------------------------------------- Flag Memory
\* The pair of structures behind the dedupe cache.
Mem(fc, ct) == [flaggedCache |-> fc, cacheTimes |-> ct]

\* cacheTimes.set(id, t)
MapSet(m, k, v) == [x \in DOMAIN m \cup {k} |-> IF x = k THEN v ELSE m[x]]
\* cacheTimes.delete(id)
\* (variant: cacheTimes.clear() in place of cacheTimes.delete(id))
MapDelete_clear(m, k) == <<>>
MapDelete(m, k) == [x \in DOMAIN m \ {k} |-> m[x]]

\* !t for t = cacheTimes.get(id): undefined or the number 0.
NoTimestamp(ct, id) == id \notin DOMAIN ct \/ ct[id] = 0

\* rememberFlagged(id) at Date.now() = clock
\* (variant: the mark is not made before the send is started)
rememberFlagged_late(id, mem, clock) == mem
\* (variant: the id is added to the set and its timestamp is not stored)
rememberFlagged_noStamp(id, mem, clock) == Mem(mem.flaggedCache \cup {id}, mem.cacheTimes)
rememberFlagged(id, mem, clock) ==
    Mem(mem.flaggedCache \cup {id}, MapSet(mem.cacheTimes, id, clock))

\* Date.now() - t > FLAG_TTL_MS
\* (variant: the operands swapped)
Expired_swapped(clock, t) == t - clock > FLAG_TTL_MS
Expired(clock, t) == clock - t > FLAG_TTL_MS

\* (variant: an expired id loses its timestamp and stays in the set)
wasFlaggedRecently_halfEvict(id, mem, clock) ==
    IF NoTimestamp(mem.cacheTimes, id)
    THEN [ret |-> FALSE, mem |-> mem]
    ELSE IF Expired(clock, mem.cacheTimes[id])
         THEN [ret |-> FALSE,
               mem |-> Mem(mem.flaggedCache, MapDelete(mem.cacheTimes, id))]
         ELSE [ret |-> TRUE, mem |-> mem]

\* wasFlaggedRecently(id) at Date.now() = clock: the value returned and the
\* cache it leaves.
wasFlaggedRecently(id, mem, clock) ==
    IF NoTimestamp(mem.cacheTimes, id)
    THEN [ret |-> FALSE, mem |-> mem]
    ELSE IF Expired(clock, mem.cacheTimes[id])
         THEN [ret |-> FALSE,
               mem |-> Mem(mem.flaggedCache \ {id}, MapDelete(mem.cacheTimes, id))]
         ELSE [ret |-> TRUE, mem |-> mem]


\* ------------------------------------------------------ webhook payloads
\* payload.message and payload.item; a missing object reads as one whose
\* properties are all undefined (payload?.message, msg?.id, it && ...).
Message(id, cid, user, text) == [id |-> id, cid |-> cid, user |-> user, text |-> text]
Item(action, mid) == [recommended_action |-> action, message_id |-> mid]
NoMsg == Message(undefined, undefined, undefined, NoText)
NoItem == Item(undefined, undefined)

\* The request body: text that JSON.parse rejects, or a parsed payload.
Body(type, msg, item) == [valid |-> TRUE, type |-> type, message |-> msg, item |-> item]
Malformed == [valid |-> FALSE, type |-> undefined, message |-> NoMsg, item |-> NoItem]

CID == "messaging:general"

M1Profane == Message("m1", CID, "alice", TextProfane)
M1Clean == Message("m1", CID, "alice", TextClean)
M1Bot == Message("m1", CID, SYSTEM_BOT, TextProfane)

\* The messages of message.flagged events: a complete one for each id, one
\* without cid, one written by the notice bot.
FlaggedMessages ==
    {M1Profane, Message("m2", CID, "alice", TextProfane),
     Message("m1", undefined, "alice", TextProfane), M1Bot}

\* The messages of message.new events of users.
NewMessages == {M1Profane, M1Clean}

Items ==
    {NoItem, Item("flag", "m1"), Item("remove", "m2"), Item("keep", "m1"),
     Item("flag", undefined)}

Bodies ==
    {Malformed}
    \cup {Body("message.flagged", m, NoItem) : m \in FlaggedMessages}
    \cup {Body("message.new", m, i) : m \in NewMessages, i \in {NoItem, Item("flag", "m1")}}
    \cup {Body("message.new", M1Bot, Item("flag", "m1"))}
    \cup {Body("review_queue_item.new", NoMsg, i) : i \in Items}

\* What serverClient.getMessage(id) can produce: a rejection, a response
\* without a message, or the stored message (written by the notice bot or by a
\* user, or one that carries no id).
GetFailed == [ok |-> FALSE, message |-> NoMsg]
GetResults(id) ==
    {GetFailed,
     [ok |-> TRUE, message |-> NoMsg],
     [ok |-> TRUE, message |-> Message(id, CID, SYSTEM_BOT, TextProfane)],
     [ok |-> TRUE, message |-> Message(id, CID, "alice", TextProfane)],
     [ok |-> TRUE, message |-> Message(undefined, CID, "alice", TextProfane)]}

\* ---------------------------------------------------- notice composition
\* The alternation of REDACT_RE.
REDACT_TOKENS ==
    { <<"f","u","c","k">>, <<"s","h","i","t">>, <<"b","i","t","c","h">>,
      <<"a","s","s","h","o","l","e">>, <<"d","i","c","k">>,
      <<"b","a","s","t","a","r","d">>, <<"c","u","n","t">> }

\* s.replace(REDACT_RE, (m) => m[0] + '***') from position i on: the text up
\* to the next match of \b(tok)\b is copied, the match becomes its first
\* character and three stars, and the search goes on behind the match.
RECURSIVE RedactFrom(_, _)
RedactFrom(s, i) ==
    LET at == {j \in i..Len(s) : \E tok \in REDACT_TOKENS : MatchAt(s, j, tok)} IN
    IF at = {} THEN SubSeq(s, i, Len(s))
    ELSE LET j == CHOOSE x \in at : \A y \in at : x <= y
             tok == CHOOSE t \in REDACT_TOKENS : MatchAt(s, j, t)
         IN  SubSeq(s, i, j - 1) \o <<s[j], "*", "*", "*">>
               \o RedactFrom(s, j + Len(tok))

\* (variant: REDACT_RE without the g flag, which replaces the first match only)
redact_first(s) ==
    LET at == {i \in DOMAIN s : \E tok \in REDACT_TOKENS : MatchAt(s, i, tok)} IN
    IF at = {} THEN s
    ELSE LET i == CHOOSE x \in at : \A y \in at : x <= y
             tok == CHOOSE t \in REDACT_TOKENS : MatchAt(s, i, t)
         IN  SubSeq(s, 1, i - 1) \o <<s[i], "*", "*", "*">>
               \o SubSeq(s, i + Len(tok), Len(s))
\* redact(s)
redact(s) == RedactFrom(s, 1)

\* The length of the preview: slice(0, 120).
PREVIEW_LEN == 120
\* s.slice(0, n)
Slice(s, n) == SubSeq(s, 1, IF Len(s) < n THEN Len(s) ELSE n)

\* (variant: the text is masked first and cut to the preview length after)
Preview_cutLast(text) == Slice(redact(text.chars), PREVIEW_LEN)
\* redact((msg?.text || '').slice(0, 120))
Preview(text) == redact(Slice(text.chars, PREVIEW_LEN))

\* s.split(':'): the segments between the separators, all of them.
RECURSIVE Split(_)
Split(s) ==
    IF \A k \in 1..Len(s) : s[k] # ":"
    THEN <<s>>
    ELSE LET k == CHOOSE x \in 1..Len(s) : s[x] = ":" /\ \A y \in 1..(x - 1) : s[y] # ":"
         IN  <<SubSeq(s, 1, k - 1)>> \o Split(SubSeq(s, k + 1, Len(s)))

\* const [type, chId] = String(cid).split(':'): the first two segments.
ChannelOf(cid) ==
    LET segs == Split(cid) IN
    [type |-> segs[1], id |-> IF Len(segs) >= 2 THEN Str(segs[2]) ELSE NoText]

\* The channel and the message of ch.sendMessage(...) in postNotice, for a
\* message with cid and text given as characters.
ComposeNotice(msg) ==
    [channel |-> ChannelOf(msg.cid),
     message |-> [author |-> IF msg.user = undefined THEN "someone" ELSE msg.user,
                  preview |-> Preview(msg.text),
                  type |-> "system",
                  user_id |-> SYSTEM_BOT]]

\* ----------------------------------------------------------------- state
VARIABLES
    now,            \* Date.now()
    ticks,          \* how often the clock has advanced
    flaggedCache,   \* Set of message ids
    cacheTimes,     \* Map: message id -> timestamp
    req,            \* the webhook calls: position, payload, response, calls made
    dispatches,     \* postNotice calls that reached the dedupe check, in order
    lookup,         \* the last wasFlaggedRecently call made on the cache directly
    notice,         \* a message handed to the notice composition, and what it made
    boot            \* the startup sequence: position, configuration, call outcomes

vars == <<now, ticks, flaggedCache, cacheTimes, req, dispatches, lookup, notice, boot>>

Memory == Mem(flaggedCache, cacheTimes)

NoRes == [status |-> 0, body |-> ""]
Idle ==
    [pc |-> "idle", body |-> Malformed, branch |-> "none", msg |-> NoMsg,
     recent |-> FALSE, res |-> NoRes, calls |-> <<>>, touched |-> FALSE,
     uncaught |-> FALSE]

NoOut ==
    [channel |-> [type |-> <<>>, id |-> NoText],
     message |-> [author |-> undefined, preview |-> <<>>,
                  type |-> undefined, user_id |-> undefined]]
NoNotice ==
    [given |-> FALSE, msg |-> NoMsg, composed |-> FALSE, out |-> NoOut,
     redacted |-> 0, once |-> <<>>, twice |-> <<>>]
NoBoot ==
    [pc |-> "off", type |-> undefined, desired |-> undefined,
     update |-> [ok |-> TRUE, message |-> undefined, code |-> 0],
     fallback |-> "not called", getType |-> "not called",
     ensure |-> "running", upsert |-> "not called", blocklist |-> undefined]

NoLookup == [called |-> FALSE, id |-> undefined, at |-> 0, had |-> FALSE, t |-> 0, ret |-> FALSE]

\* The id has an entry that is at most FLAG_TTL_MS old.
InFlagMemory(id) == id \in DOMAIN cacheTimes /\ now - cacheTimes[id] <= FLAG_TTL_MS

\* A collaborator call of a handler and how it ended ("pending" while awaited).
Call(fn, arg) == [fn |-> fn, arg |-> arg, result |-> "pending"]
Settle(calls, result) == [calls EXCEPT ![Len(calls)].result = result]
CallsOf(r, fn) == SelectSeq(r.calls, LAMBDA c : c.fn = fn)

\* res.status(200).send(text)
Respond(r, text) == [r EXCEPT !.pc = "done", !.res = [status |-> 200, body |-> text]]

\* ------------------------------------------------------------ postNotice
\* (variant: postNotice relies on its caller's check and does not look the id
\* up again)
postNotice_unchecked(msg, mem, clock) ==
    IF msg.id = undefined \/ msg.cid = undefined
    THEN [mem |-> mem, checked |-> FALSE, send |-> FALSE]
    ELSE [mem |-> rememberFlagged(msg.id, mem, clock), checked |-> TRUE, send |-> TRUE]

\* (variant: the id is marked before the guard on id and cid)
postNotice_markFirst(msg, mem, clock) ==
    IF msg.id = undefined
    THEN [mem |-> mem, checked |-> FALSE, send |-> FALSE]
    ELSE IF msg.cid = undefined
    THEN [mem |-> rememberFlagged(msg.id, mem, clock), checked |-> FALSE, send |-> FALSE]
    ELSE LET w == wasFlaggedRecently(msg.id, mem, clock) IN
         IF w.ret
         THEN [mem |-> w.mem, checked |-> TRUE, send |-> FALSE]
         ELSE [mem |-> rememberFlagged(msg.id, w.mem, clock),
               checked |-> TRUE, send |-> TRUE]

\* The synchronous part of postNotice(msg): the cache it leaves, whether the
\* dedupe check was reached, and whether ch.sendMessage was invoked.
postNotice(msg, mem, clock) ==
    IF msg.id = undefined \/ msg.cid = undefined
    THEN [mem |-> mem, checked |-> FALSE, send |-> FALSE]
    ELSE LET w == wasFlaggedRecently(msg.id, mem, clock) IN
         IF w.ret
         THEN [mem |-> w.mem, checked |-> TRUE, send |-> FALSE]
         ELSE [mem |-> rememberFlagged(msg.id, w.mem, clock),
               checked |-> TRUE, send |-> TRUE]

\* ------------------------------------------------------- app.post('/webhook')
\* (variant: no guard against the notice bot's own messages)
Branch_unguarded(body) ==
    LET msg == body.message
        it == body.item
    IN  IF ~body.valid THEN "parse"
        ELSE IF body.type = "message.flagged" /\ msg.id # undefined THEN "flagged"
        ELSE IF body.type = "message.new" /\ msg.id # undefined
                /\ msg.text.typeof = "string" THEN "new"
        ELSE IF it.recommended_action \in {"flag", "remove"}
                /\ it.message_id # undefined THEN "queue"
        ELSE "ignored"

\* The branch of the handler a request body takes, in the order of the code.
Branch(body) ==
    LET msg == body.message
        it == body.item
    IN  IF ~body.valid THEN "parse"
        ELSE IF msg.user = SYSTEM_BOT THEN "bot"
        ELSE IF body.type = "message.flagged" /\ msg.id # undefined THEN "flagged"
        ELSE IF body.type = "message.new" /\ msg.id # undefined
                /\ msg.text.typeof = "string" THEN "new"
        ELSE IF it.recommended_action \in {"flag", "remove"}
                /\ it.message_id # undefined THEN "queue"
        ELSE "ignored"

\* (variant: postNotice(msg) awaited without its .catch)
Catches_flaggedBare(branch) == branch \in {"new", "queue"}

\* Whether a rejected await of the branch is handled: .catch(() => {}) on the
\* flagged branch, try/catch on the other two.
Catches(branch) == branch \in {"flagged", "new", "queue"}

\* (variant: the author of the fetched message is not looked at)
ShouldNotify_anyAuthor(got) == got.ok /\ got.message # NoMsg

\* if (got?.message && got.message.user?.id !== 'system-bot')
ShouldNotify(got) ==
    got.ok /\ got.message # NoMsg /\ got.message.user # SYSTEM_BOT

\* The handler r of call h runs postNotice(msg) and goes on to its next
\* suspension point or to its response.
RunPostNotice(h, r, msg) ==
    LET p == postNotice(msg, Memory, now)
        t == r.touched \/ p.mem # Memory
    IN  /\ flaggedCache' = p.mem.flaggedCache
        /\ cacheTimes' = p.mem.cacheTimes
        /\ dispatches' =
             IF p.checked
             THEN Append(dispatches, [id |-> msg.id, cid |-> msg.cid, at |-> now,
                                      by |-> h, sent |-> p.send,
                                      marked |-> (p.mem # Memory)])
             ELSE dispatches
        /\ req' = [req EXCEPT ![h] =
             IF p.send
             THEN [r EXCEPT !.pc = "awaitSend", !.msg = msg, !.touched = t,
                            !.calls = Append(@, Call("sendMessage", msg.id))]
             ELSE Respond([r EXCEPT !.msg = msg, !.touched = t], "ok")]

\* (variant: a rejected sendMessage is tried once more)
Rejected_retry(h, r) ==
    req' = [req EXCEPT ![h] =
        IF r.calls[Len(r.calls)].fn = "sendMessage" /\ Len(CallsOf(r, "sendMessage")) = 1
        THEN [r EXCEPT !.pc = "awaitSend",
                       !.calls = Append(@, Call("sendMessage", r.msg.id))]
        ELSE Respond(r, "ok")]

\* (variant: the catch rethrows, and the handler ends without a response)
Rejected_rethrow(h, r) ==
    req' = [req EXCEPT ![h] = [r EXCEPT !.pc = "done", !.uncaught = TRUE]]

\* A rejected await: the catch of the branch, then the response.
Rejected(h, r) ==
    req' = [req EXCEPT ![h] =
        IF Catches(r.branch) THEN Respond(r, "ok")
        ELSE [r EXCEPT !.pc = "done", !.uncaught = TRUE]]

\* A webhook call arrives and runs to its first await or to its response.
Receive(h, body) ==
    /\ req[h].pc = "idle"
    /\ \A g \in Handlers : g < h => req[g].pc # "idle"
    /\ LET br == Branch(body)
           msg == body.message
           r == [req[h] EXCEPT !.body = body, !.branch = br,
                               !.recent = InFlagMemory(msg.id)]
       IN  CASE br \in {"parse", "bot", "ignored"} ->
                  /\ req' = [req EXCEPT ![h] = Respond(r, "ignored")]
                  /\ UNCHANGED <<flaggedCache, cacheTimes, dispatches>>
             [] br = "flagged" -> RunPostNotice(h, r, msg)
             [] br = "new" ->
                  IF PROFANITY_RE(msg.text.chars)
                  THEN LET w == wasFlaggedRecently(msg.id, Memory, now)
                           r2 == [r EXCEPT !.touched = (w.mem # Memory)]
                       IN  /\ flaggedCache' = w.mem.flaggedCache
                           /\ cacheTimes' = w.mem.cacheTimes
                           /\ UNCHANGED dispatches
                           /\ req' = [req EXCEPT ![h] =
                                IF ~w.ret
                                THEN [r2 EXCEPT !.pc = "awaitFlag", !.msg = msg,
                                           !.calls = Append(@, Call("flagMessage", msg.id))]
                                ELSE Respond(r2, "ok")]
                  ELSE /\ req' = [req EXCEPT ![h] = Respond(r, "ok")]
                       /\ UNCHANGED <<flaggedCache, cacheTimes, dispatches>>
             [] br = "queue" ->
                  /\ req' = [req EXCEPT ![h] =
                       [r EXCEPT !.pc = "awaitGet",
                                 !.calls = Append(@, Call("getMessage", body.item.message_id))]]
                  /\ UNCHANGED <<flaggedCache, cacheTimes, dispatches>>
    /\ UNCHANGED <<now, ticks, lookup, notice, boot>>

\* serverClient.flagMessage settles: postNotice follows in the same try block.
FlagReturns(h, ok) ==
    /\ req[h].pc = "awaitFlag"
    /\ LET r == [req[h] EXCEPT !.calls = Settle(@, IF ok THEN "ok" ELSE "fail")]
       IN  IF ok
           THEN RunPostNotice(h, r, r.msg)
           ELSE /\ Rejected(h, r)
                /\ UNCHANGED <<flaggedCache, cacheTimes, dispatches>>
    /\ UNCHANGED <<now, ticks, lookup, notice, boot>>

\* serverClient.getMessage settles.
GetReturns(h, got) ==
    /\ req[h].pc = "awaitGet"
    /\ got \in GetResults(req[h].body.item.message_id)
    /\ LET result == IF ~got.ok THEN "fail"
                     ELSE IF got.message = NoMsg THEN "none"
                     ELSE IF got.message.user = SYSTEM_BOT THEN "bot" ELSE "ok"
           r == [req[h] EXCEPT !.calls = Settle(@, result)]
       IN  IF ~got.ok
           THEN /\ Rejected(h, r)
                /\ UNCHANGED <<flaggedCache, cacheTimes, dispatches>>
           ELSE IF ShouldNotify(got)
           THEN RunPostNotice(h, r, got.message)
           ELSE /\ req' = [req EXCEPT ![h] = Respond(r, "ok")]
                /\ UNCHANGED <<flaggedCache, cacheTimes, dispatches>>
    /\ UNCHANGED <<now, ticks, lookup, notice, boot>>

\* ch.sendMessage settles.
SendReturns(h, ok) ==
    /\ req[h].pc = "awaitSend"
    /\ LET r == [req[h] EXCEPT !.calls = Settle(@, IF ok THEN "ok" ELSE "fail")]
       IN  IF ok
           THEN req' = [req EXCEPT ![h] = Respond(r, "ok")]
           ELSE Rejected(h, r)
    /\ UNCHANGED <<now, ticks, flaggedCache, cacheTimes, dispatches, lookup, notice, boot>>

\* Time passes. An empty cache holds no timestamp to compare the clock with
\* (wasFlaggedRecently returns before it reads Date.now()), so the clock is
\* watched from the first stored entry on.
Tick(d) ==
    /\ ticks < MaxTicks
    /\ cacheTimes # <<>>
    /\ now' = now + d
    /\ ticks' = ticks + 1
    /\ UNCHANGED <<flaggedCache, cacheTimes, req, dispatches, lookup, notice, boot>>

Init ==
    /\ now \in StartTimes
    /\ ticks = 0
    /\ flaggedCache = {}
    /\ cacheTimes = <<>>
    /\ req = [h \in Handlers |-> Idle]
    /\ dispatches = <<>>
    /\ lookup = NoLookup
    /\ notice = NoNotice
    /\ boot = NoBoot

Next ==
    \/ \E h \in Handlers, body \in Bodies : Receive(h, body)
    \/ \E h \in Handlers, ok \in BOOLEAN : FlagReturns(h, ok)
    \/ \E h \in Handlers : \E got \in GetResults(req[h].body.item.message_id) : GetReturns(h, got)
    \/ \E h \in Handlers, ok \in BOOLEAN : SendReturns(h, ok)
    \/ \E d \in TickSteps : Tick(d)

Spec == Init /\ [][Next]_vars

\* Every call of the chat service that a handler waits for settles: it returns
\* or it fails.
CallsSettle ==
    \A h \in Handlers :
        /\ WF_vars(\E ok \in BOOLEAN : FlagReturns(h, ok))
        /\ WF_vars(\E got \in GetResults(req[h].body.item.message_id) : GetReturns(h, got))
        /\ WF_vars(\E ok \in BOOLEAN : SendReturns(h, ok))

SpecLive == Init /\ [][Next]_vars /\ CallsSettle


\* ------------------------------------------- Flag Memory driven directly
\* rememberFlagged and wasFlaggedRecently called on the cache with the clock
\* at any value, the epoch (Date.now() = 0) included.
CacheRemember(id) ==
    /\ flaggedCache' = rememberFlagged(id, Memory, now).flaggedCache
    /\ cacheTimes' = rememberFlagged(id, Memory, now).cacheTimes
    /\ UNCHANGED <<now, ticks, req, dispatches, lookup, notice, boot>>

CacheLookup(id) ==
    LET w == wasFlaggedRecently(id, Memory, now)
        had == id \in DOMAIN cacheTimes
    IN  /\ flaggedCache' = w.mem.flaggedCache
        /\ cacheTimes' = w.mem.cacheTimes
        /\ lookup' = [called |-> TRUE, id |-> id, at |-> now, had |-> had,
                      t |-> IF had THEN cacheTimes[id] ELSE 0, ret |-> w.ret]
        /\ UNCHANGED <<now, ticks, req, dispatches, notice, boot>>

InitFlagMemory ==
    /\ now \in {0} \cup StartTimes
    /\ ticks = 0
    /\ flaggedCache = {}
    /\ cacheTimes = <<>>
    /\ req = [h \in Handlers |-> Idle]
    /\ dispatches = <<>>
    /\ lookup = NoLookup
    /\ notice = NoNotice
    /\ boot = NoBoot

NextFlagMemory ==
    \/ \E id \in Ids : CacheRemember(id)
    \/ \E id \in Ids : CacheLookup(id)
    \/ \E d \in TickSteps : Tick(d)

SpecFlagMemory == InitFlagMemory /\ [][NextFlagMemory]_vars

\* ------------------------------------------ notice composition on its own
\* The characters a conversation id is drawn from.
CidChars == {"t", "c", ":"}
Cids == UNION {[1..n -> CidChars] : n \in 1..MaxCidLen}
CIDChars == <<"t", ":", "c">>

\* The pieces a message text is put together from: tokens in either case,
\* a masked token, a star, a space, a letter.
Pieces ==
    { <<"f","u","c","k">>, <<"S","h","i","t">>, <<"f","*","*","*">>,
      <<"*">>, <<" ">>, <<"x">> }
RECURSIVE Concat(_)
Concat(ps) == IF ps = <<>> THEN <<>> ELSE Head(ps) \o Concat(Tail(ps))
ShortTexts == {Concat(ps) : ps \in UNION {[1..n -> Pieces] : n \in 1..MaxWords}}

\* Texts around the preview length: k characters of padding, then a word that
\* the cut at PREVIEW_LEN leaves whole, cuts short, or cuts down to a token.
Pad(k) == [i \in 1..k |-> IF i = k THEN " " ELSE "x"]
LongTexts ==
    {Pad(k) \o w : k \in (PREVIEW_LEN - 7)..(PREVIEW_LEN + 1),
                   w \in { <<"s","h","i","t","t","y">>, <<"s","h","i","t"," ","x">>,
                           <<"F","U","C","K">> }}

NoticeInputs ==
    {Message("m1", cid, "alice", TextProfane) : cid \in Cids}
      \cup {Message("m1", CIDChars, "alice", Str(t)) : t \in ShortTexts \cup LongTexts}
      \cup {Message("m1", CIDChars, undefined, NoText)}

\* postNotice lines 186-196 on the message given.
Compose ==
    /\ notice.given /\ ~notice.composed
    /\ notice' = [notice EXCEPT !.composed = TRUE, !.out = ComposeNotice(notice.msg)]
    /\ UNCHANGED <<now, ticks, flaggedCache, cacheTimes, req, dispatches, lookup, boot>>

\* redact applied to the text given.
RedactOnce ==
    /\ notice.given /\ notice.redacted = 0
    /\ notice' = [notice EXCEPT !.redacted = 1, !.once = redact(notice.msg.text.chars)]
    /\ UNCHANGED <<now, ticks, flaggedCache, cacheTimes, req, dispatches, lookup, boot>>

\* redact applied to what redact returned.
RedactTwice ==
    /\ notice.redacted = 1
    /\ notice' = [notice EXCEPT !.redacted = 2, !.twice = redact(notice.once)]
    /\ UNCHANGED <<now, ticks, flaggedCache, cacheTimes, req, dispatches, lookup, boot>>

InitNotice ==
    /\ now = 1
    /\ ticks = 0
    /\ flaggedCache = {}
    /\ cacheTimes = <<>>
    /\ req = [h \in Handlers |-> Idle]
    /\ dispatches = <<>>
    /\ lookup = NoLookup
    /\ notice \in {[NoNotice EXCEPT !.given = TRUE, !.msg = m] : m \in NoticeInputs}
    /\ boot = NoBoot

NextNotice ==
    \/ Compose
    \/ RedactOnce
    \/ RedactTwice

SpecNotice == InitNotice /\ [][NextNotice]_vars

\* ------------------------------------------------------------- bootstrap
CHANNEL_TYPES == {"messaging", "team"}          \* process.env.CHANNEL_TYPE || 'messaging'
FALLBACK_BLOCKLIST == "profanity_en_2020_v1"
DESIRED_BLOCKLISTS == {FALLBACK_BLOCKLIST, "house_rules"}  \* process.env.BLOCKLIST_NAME || ...

\* What a call of the chat service can come back with: a value, or an error
\* with a message and a code.
Returned == [ok |-> TRUE, message |-> undefined, code |-> 0]
Failure(message, code) == [ok |-> FALSE, message |-> message, code |-> code]
UpdateOutcomes ==
    { Returned,
      Failure("UpdateChannelType failed: Invalid Block List Name", 4),
      Failure("UpdateChannelType failed: Invalid Block List Name", 0),
      Failure("bad request", 4),
      Failure("connect ETIMEDOUT", 0) }
\* The messages /invalid block list name/i finds a match in.
InvalidNameMessages == {"UpdateChannelType failed: Invalid Block List Name"}
\* /invalid block list name/i.test(msg) || err?.code === 4
IsInvalidName(err) == err.message \in InvalidNameMessages \/ err.code = 4

\* getChannelType: details, no details (t undefined), or a rejection.
GetTypeOutcomes == {"details", "undefined", "fail"}

BootStart(type, desired) ==
    [pc |-> "update", type |-> type, desired |-> desired,
     update |-> Returned, fallback |-> "not called", getType |-> "not called",
     ensure |-> "running", upsert |-> "not called", blocklist |-> undefined]

\* await serverClient.updateChannelType(CHANNEL_TYPE, {blocklist: DESIRED_BLOCKLIST})
\* settles: on success and on any other error the function goes on to
\* getChannelType; on an invalid name the catch block calls updateChannelType
\* again with the fallback list.
UpdateReturns(out) ==
    /\ boot.pc = "update"
    /\ boot' = [boot EXCEPT
            !.update = out,
            !.blocklist = IF out.ok THEN boot.desired ELSE boot.blocklist,
            !.pc = IF ~out.ok /\ IsInvalidName(out) THEN "fallback" ELSE "getType"]
    /\ UNCHANGED <<now, ticks, flaggedCache, cacheTimes, req, dispatches, lookup, notice>>

\* The await inside the catch block settles. No try encloses it: a rejection
\* leaves ensureChannelTypeWithBlocklist, and with it the startup function,
\* whose promise nobody handles.
FallbackReturns(ok) ==
    /\ boot.pc = "fallback"
    /\ boot' = IF ok
               THEN [boot EXCEPT !.fallback = "ok", !.blocklist = FALLBACK_BLOCKLIST,
                                 !.pc = "getType"]
               ELSE [boot EXCEPT !.fallback = "fail", !.ensure = "threw",
                                 !.pc = "rejected"]
    /\ UNCHANGED <<now, ticks, flaggedCache, cacheTimes, req, dispatches, lookup, notice>>

\* await serverClient.getChannelType settles, inside its own try/catch; the
\* function returns and the startup function calls upsertUser.
GetTypeReturns(out) ==
    /\ boot.pc = "getType"
    /\ boot' = [boot EXCEPT !.getType = out, !.ensure = "returned", !.pc = "upsert"]
    /\ UNCHANGED <<now, ticks, flaggedCache, cacheTimes, req, dispatches, lookup, notice>>

\* await serverClient.upsertUser({id: 'system-bot'}).catch(() => {}) settles.
UpsertReturns(ok) ==
    /\ boot.pc = "upsert"
    /\ boot' = [boot EXCEPT !.upsert = IF ok THEN "ok" ELSE "fail", !.pc = "done"]
    /\ UNCHANGED <<now, ticks, flaggedCache, cacheTimes, req, dispatches, lookup, notice>>

\* The unhandled rejection of the startup function: the runtime ends the
\* process or only warns, depending on its version and flags.
UnhandledRejection(exits) ==
    /\ boot.pc = "rejected"
    /\ boot' = [boot EXCEPT !.pc = IF exits THEN "crashed" ELSE "warned"]
    /\ UNCHANGED <<now, ticks, flaggedCache, cacheTimes, req, dispatches, lookup, notice>>

InitBootstrap ==
    /\ now = 1
    /\ ticks = 0
    /\ flaggedCache = {}
    /\ cacheTimes = <<>>
    /\ req = [h \in Handlers |-> Idle]
    /\ dispatches = <<>>
    /\ lookup = NoLookup
    /\ notice = NoNotice
    /\ boot \in {BootStart(type, desired) : type \in CHANNEL_TYPES, desired \in DESIRED_BLOCKLISTS}

NextBootstrap ==
    \/ \E out \in UpdateOutcomes : UpdateReturns(out)
    \/ \E ok \in BOOLEAN : FallbackReturns(ok)
    \/ \E out \in GetTypeOutcomes : GetTypeReturns(out)
    \/ \E ok \in BOOLEAN : UpsertReturns(ok)
    \/ \E exits \in BOOLEAN : UnhandledRejection(exits)

SpecBootstrap == InitBootstrap /\ [][NextBootstrap]_vars


\* ================================================================ claims
\* The dispatches for message id m, as indices of the log.
DispatchesOf(m) == {i \in DOMAIN dispatches : dispatches[i].id = m}
\* The dispatches that invoked sendMessage.
SendsOf(m) == {i \in DispatchesOf(m) : dispatches[i].sent}
\* How the sendMessage of dispatch i ended: "pending", "ok" or "fail".
SendResult(i) == CallsOf(req[dispatches[i].by], "sendMessage")[1].result
\* Every collaborator call of handler h succeeded.
AllSucceeded(h) == \A k \in DOMAIN req[h].calls : req[h].calls[k].result = "ok"

\* C1: for every message id, any two sendMessage attempts made by postNotice
\* for that id are more than FLAG_TTL_MS apart, whatever the interleaving of the
\* handlers in flight (so two dispatches in immediate succession make one send
\* attempt); and sendMessage is invoked by postNotice only, once per handler at
\* most.
C1_AtMostOncePerWindow ==
    /\ \A m \in Ids : \A i, j \in SendsOf(m) :
         i < j => dispatches[j].at - dispatches[i].at > FLAG_TTL_MS
    /\ \A h \in Handlers :
         Len(CallsOf(req[h], "sendMessage"))
           = Cardinality({i \in DOMAIN dispatches : dispatches[i].by = h /\ dispatches[i].sent})

\* Two dispatches for one id at the same instant, by two handlers: the first
\* sent, the second did not.
C1_Witness ==
    \E i, j \in DOMAIN dispatches :
        /\ i < j
        /\ dispatches[i].id = dispatches[j].id
        /\ dispatches[i].by # dispatches[j].by
        /\ dispatches[i].at = dispatches[j].at
        /\ dispatches[i].sent /\ ~dispatches[j].sent

\* A message.flagged event e and a profane message.new event n for one message
\* id, both answered, every collaborator call of both succeeded, no other event
\* dispatched for the id, and the dedupe checks all within one TTL window.
RacePair(e, n) ==
    LET m == req[e].body.message.id IN
    /\ req[e].pc = "done" /\ req[n].pc = "done"
    /\ req[e].branch = "flagged" /\ req[n].branch = "new"
    /\ req[n].body.message.id = m
    /\ req[e].body.message.cid # undefined /\ req[n].body.message.cid # undefined
    /\ AllSucceeded(e) /\ AllSucceeded(n)
    /\ \A i \in DispatchesOf(m) : dispatches[i].by \in {e, n}
    /\ \A i, j \in DispatchesOf(m) :
         dispatches[j].at - dispatches[i].at <= FLAG_TTL_MS
    /\ PROFANITY_RE(req[n].body.message.text.chars)

C3_RenotifyAfterExpiry ==
    \A j \in DOMAIN dispatches :
        (\A i \in DispatchesOf(dispatches[j].id) :
            i < j => dispatches[j].at - dispatches[i].at > FLAG_TTL_MS)
        => dispatches[j].sent

\* Two dispatches for one id more than the TTL apart, both sent and both
\* delivered.
C3_Witness ==
    \E i, j \in DOMAIN dispatches :
        /\ i < j
        /\ dispatches[i].id = dispatches[j].id
        /\ dispatches[j].at - dispatches[i].at > FLAG_TTL_MS
        /\ dispatches[i].sent /\ dispatches[j].sent
        /\ SendResult(i) = "ok" /\ SendResult(j) = "ok"


Ok200(text) == [status |-> 200, body |-> text]
\* How the only call of fn by handler h ended; "absent" if h never called fn.
ResultOf(h, fn) ==
    IF CallsOf(req[h], fn) = <<>> THEN "absent" ELSE CallsOf(req[h], fn)[1].result
\* Handler h made postNotice reach the dedupe check.
Dispatched(h) == \E i \in DOMAIN dispatches : dispatches[i].by = h

\* C4: for a message.new event with an id and profane text whose id is not in
\* the cache, a failure of flagMessage does not prevent the dispatch: postNotice
\* still runs for the message after the failure.
C4_NoticeDespiteFlagFailure ==
    \A h \in Handlers :
        ( /\ req[h].pc = "done"
          /\ req[h].branch = "new"
          /\ req[h].body.message.cid # undefined
          /\ ResultOf(h, "flagMessage") = "fail" )
        => Dispatched(h)

\* C5: every webhook call that is answered is answered with status 200 and body
\* "ok" or "ignored", whatever the payload and however flagMessage, getMessage
\* and sendMessage end; no error leaves the handler uncaught, and a handler
\* that has finished has answered.
C5_AlwaysAcknowledged200 ==
    \A h \in Handlers :
        /\ ~req[h].uncaught
        /\ req[h].pc = "done" => req[h].res \in {Ok200("ok"), Ok200("ignored")}
        /\ req[h].pc # "done" => req[h].res = NoRes

\* A handler whose sendMessage was rejected answered "ok", and a malformed
\* body was answered "ignored".
C5_Witness ==
    \E h, g \in Handlers :
        /\ ResultOf(h, "sendMessage") = "fail" /\ req[h].res = Ok200("ok")
        /\ req[h].branch = "flagged"
        /\ req[g].pc = "done" /\ req[g].branch = "parse" /\ req[g].res = Ok200("ignored")

\* C6: an event whose message author is 'system-bot' is ignored whatever its
\* type, text and item: the handler makes no collaborator call, leaves the
\* cache as it is and answers "ignored".
C6_SystemBotIgnored ==
    \A h \in Handlers :
        (req[h].pc # "idle" /\ req[h].body.valid /\ req[h].body.message.user = SYSTEM_BOT)
        => /\ req[h].pc = "done"
           /\ req[h].res = Ok200("ignored")
           /\ req[h].calls = <<>>
           /\ ~req[h].touched
           /\ ~Dispatched(h)

\* A profane message.new event of the bot carrying a 'flag' item was ignored,
\* and so was a message.flagged event of the bot.
C6_Witness ==
    \E h, g \in Handlers :
        /\ req[h].pc = "done" /\ req[h].body.message.user = SYSTEM_BOT
        /\ req[h].body.type = "message.new" /\ req[h].body.item.recommended_action = "flag"
        /\ req[g].pc = "done" /\ req[g].body.message.user = SYSTEM_BOT
        /\ req[g].body.type = "message.flagged"

\* C7: for an AI-queue event, if getMessage is rejected, returns no message or
\* returns a message written by 'system-bot', the handler sends no notice,
\* leaves the cache as it is and answers "ok"; nothing but that event's
\* dispatch is given up.
C7_QueueAbort ==
    \A h \in Handlers :
        (req[h].branch = "queue" /\ ResultOf(h, "getMessage") \in {"fail", "none", "bot"})
        => /\ req[h].pc = "done"
           /\ req[h].res = Ok200("ok")
           /\ Len(req[h].calls) = 1
           /\ ~req[h].touched
           /\ ~Dispatched(h)
           /\ ~req[h].uncaught

\* An item with action 'remove' resolved to a message of the bot, and one whose
\* getMessage was rejected: both answered, the cache still empty.
C7_Witness ==
    \E h, g \in Handlers :
        /\ req[h].body.item.recommended_action = "remove"
        /\ ResultOf(h, "getMessage") = "bot"
        /\ ResultOf(g, "getMessage") = "fail"
        /\ cacheTimes = <<>> /\ flaggedCache = {}

\* C8: when the sendMessage for a message id is rejected, the handler answers
\* "ok" and calls sendMessage no second time, the cache entry of the id stays
\* for its TTL window, and every later dispatch for the id within the window
\* sends nothing.
C8_NoRetryAfterFailedSend ==
    \A i \in DOMAIN dispatches :
        LET d == dispatches[i] IN
        (d.sent /\ SendResult(i) = "fail")
        => /\ Len(CallsOf(req[d.by], "sendMessage")) = 1
           /\ req[d.by].res = Ok200("ok")
           /\ now - d.at <= FLAG_TTL_MS
                => /\ d.id \in flaggedCache
                   /\ d.id \in DOMAIN cacheTimes
                   /\ cacheTimes[d.id] >= d.at
           /\ \A j \in DispatchesOf(d.id) :
                (j > i /\ dispatches[j].at - d.at <= FLAG_TTL_MS) => ~dispatches[j].sent

\* A rejected send for an id, followed at the very end of its TTL window by
\* another event for the id that sent nothing.
C8_Witness ==
    \E i, j \in DOMAIN dispatches :
        /\ i < j
        /\ dispatches[i].id = dispatches[j].id
        /\ dispatches[i].sent /\ SendResult(i) = "fail"
        /\ dispatches[j].at - dispatches[i].at = FLAG_TTL_MS
        /\ ~dispatches[j].sent
        /\ req[dispatches[j].by].pc = "done"

\* C9: wasFlaggedRecently(id) returns true if and only if the cache holds an
\* entry for id and now - entry.timestamp <= FLAG_TTL_MS, for every stored
\* timestamp and every current time, the timestamp 0 included.
C9_RecentIffEntryWithinTtl ==
    lookup.called =>
        (lookup.ret <=> (lookup.had /\ lookup.at - lookup.t <= FLAG_TTL_MS))

\* Rules 1 to 3 of the classifier, as the decision order states them, for the
\* event of handler h.
Rule1(h) == req[h].body.message.user = SYSTEM_BOT
Rule2(h) == req[h].body.type = "message.flagged" /\ req[h].body.message.id # undefined
Rule3(h) ==
    /\ req[h].body.type = "message.new"
    /\ req[h].body.message.id # undefined
    /\ req[h].body.message.text.typeof = "string"
    /\ PROFANITY_RE(req[h].body.message.text.chars)
    /\ ~req[h].recent

\* C10: every event that carries an item with recommended_action 'flag' or
\* 'remove' and a message_id, and that matches none of rules 1 to 3, is handled
\* as an AI-queue recommendation: the message is resolved through getMessage,
\* also when the event is a message.new with an id and non-profane text or with
\* an id already in the cache.
C10_QueueItemResolved ==
    \A h \in Handlers :
        ( /\ req[h].pc # "idle"
          /\ req[h].body.valid
          /\ ~Rule1(h) /\ ~Rule2(h) /\ ~Rule3(h)
          /\ req[h].body.item.recommended_action \in {"flag", "remove"}
          /\ req[h].body.item.message_id # undefined )
        => ResultOf(h, "getMessage") # "absent"

\* ---- C11 ---------------------------------------------------------------
\* C11: for a conversation id "<type>:<rest>" the notice goes to the channel
\* whose type is the text before the first ':' and whose id is everything
\* after the first ':', further ':' included; and the notice is sent with
\* type 'system' as user 'system-bot'.
C11_RoutedByFirstColon ==
    (notice.composed /\ \E k \in DOMAIN notice.msg.cid : notice.msg.cid[k] = ":") =>
        LET cid == notice.msg.cid
            k == CHOOSE x \in DOMAIN cid : cid[x] = ":" /\ \A y \in 1..(x - 1) : cid[y] # ":"
        IN  /\ notice.out.channel.type = SubSeq(cid, 1, k - 1)
            /\ notice.out.channel.id = Str(SubSeq(cid, k + 1, Len(cid)))
            /\ notice.out.message.type = "system"
            /\ notice.out.message.user_id = SYSTEM_BOT

\* ---- C12 ---------------------------------------------------------------
\* The first position of s at which the classifier matches, 0 if none.
FirstMatch(s) ==
    LET at == {i \in DOMAIN s : \E tok \in PROFANITY_TOKENS : MatchAt(s, i, tok)} IN
    IF at = {} THEN 0 ELSE CHOOSE x \in at : \A y \in at : x <= y

\* C12: the preview quoted in a notice holds no whole-word, case-insensitive
\* occurrence of a profanity token, whatever the text and wherever the cut at
\* 120 characters falls; the classifier and the masking use the same tokens,
\* and what the classifier matches in the cut text is masked as its first
\* character followed by '***'.
C12_PreviewHoldsNoToken ==
    notice.composed =>
        LET p == notice.out.message.preview
            raw == notice.msg.text.chars
            cut == SubSeq(raw, 1, IF Len(raw) < 120 THEN Len(raw) ELSE 120)
            i == FirstMatch(cut)
        IN  /\ ~PROFANITY_RE(p)
            /\ REDACT_TOKENS = PROFANITY_TOKENS
            /\ i > 0 => /\ Len(p) >= i + 3
                        /\ SubSeq(p, 1, i + 3) = SubSeq(cut, 1, i) \o <<"*", "*", "*">>
            /\ i = 0 => p = cut

\* A text that only the cut at 120 characters turns into one the classifier
\* matches ("... shitty" cut after "shit"), composed into a notice.
C12_Witness ==
    /\ notice.composed
    /\ Len(notice.msg.text.chars) > 120
    /\ ~PROFANITY_RE(notice.msg.text.chars)
    /\ PROFANITY_RE(SubSeq(notice.msg.text.chars, 1, 120))
    /\ Len(notice.out.message.preview) = 120
    /\ notice.out.message.preview[120] = "*"

\* ---- C13 ---------------------------------------------------------------
\* C13: redact is idempotent: masking a masked text changes nothing.
C13_RedactIdempotent ==
    notice.redacted = 2 => notice.twice = notice.once

\* A text with two tokens around a star, masked and masked again.
C13_Witness ==
    /\ notice.redacted = 2
    /\ notice.msg.text.chars = <<"f","u","c","k","*","S","h","i","t">>
    /\ notice.once = <<"f","*","*","*","*","S","*","*","*">>

\* ---- C14 ---------------------------------------------------------------
\* C14: whatever updateChannelType and getChannelType come back with (the
\* first update failing for an invalid blocklist name or for another reason,
\* the fallback update failing too), ensureChannelTypeWithBlocklist finishes
\* without passing an error on, the startup goes on to upsert the system-bot
\* user, and the process keeps running.
C14_BootstrapNonFatal ==
    /\ boot.ensure # "threw"
    /\ boot.pc # "crashed"
    /\ boot.pc \in {"done", "rejected", "warned"} => boot.upsert # "not called"

\* ---- C15 ---------------------------------------------------------------
\* C15: postNotice does nothing when the message has no id or no cid, or when
\* its id was flagged recently: it sends no notice and adds no entry to the
\* cache. A message.flagged event with an id and no cid therefore leaves no
\* entry, and a later complete event for the same id is still dispatched.
C15_NoOpLeavesNothing ==
    /\ \A h \in Handlers :
        (req[h].branch = "flagged" /\ req[h].body.message.cid = undefined) =>
            /\ req[h].res = Ok200("ok")
            /\ req[h].calls = <<>>
            /\ ~req[h].touched
            /\ ~Dispatched(h)
            /\ \A m \in Ids :
                 (req[h].body.message.id = m /\ DispatchesOf(m) # {}) =>
                     dispatches[CHOOSE i \in DispatchesOf(m) :
                                   \A j \in DispatchesOf(m) : i <= j].sent
    /\ \A h \in Handlers :
        (req[h].branch = "queue" /\ ResultOf(h, "getMessage") = "ok"
           /\ req[h].msg.id = undefined) =>
            /\ req[h].res = Ok200("ok")
            /\ CallsOf(req[h], "sendMessage") = <<>>
            /\ ~req[h].touched
            /\ ~Dispatched(h)
    /\ \A i \in DOMAIN dispatches :
        ~dispatches[i].sent =>
            /\ ~dispatches[i].marked
            /\ CallsOf(req[dispatches[i].by], "sendMessage") = <<>>

\* A message.flagged event without cid was handled, and a later complete
\* event for the same id was sent.
C15_Witness ==
    \E h, g \in Handlers :
        /\ h < g
        /\ req[h].branch = "flagged"
        /\ req[h].body.message.cid = undefined
        /\ req[h].body.message.id = "m1"
        /\ req[h].pc = "done"
        /\ \E i \in SendsOf("m1") : dispatches[i].by = g

\* ---- C16 ---------------------------------------------------------------
\* C16, as stated: in every reachable state in which a sendMessage for an id
\* has been started and has not settled, the cache holds an entry for the id.
C16_EntryWhileSendInFlight ==
    \A h \in Handlers :
        req[h].pc = "awaitSend" =>
            /\ req[h].msg.id \in flaggedCache
            /\ req[h].msg.id \in DOMAIN cacheTimes

\* C16, amended: the run of postNotice that starts a sendMessage has marked
\* the id in the same step, and while the send is in flight and no more than
\* FLAG_TTL_MS have passed since it was started, the cache holds an entry for
\* the id stamped no earlier than the start of the send.
C16_MarkedBeforeSend ==
    \A i \in DOMAIN dispatches :
        dispatches[i].sent =>
            /\ dispatches[i].marked
            /\ (req[dispatches[i].by].pc = "awaitSend"
                  /\ now - dispatches[i].at <= FLAG_TTL_MS) =>
                    /\ dispatches[i].id \in flaggedCache
                    /\ dispatches[i].id \in DOMAIN cacheTimes
                    /\ cacheTimes[dispatches[i].id] >= dispatches[i].at

\* A send for m1 is in flight and another event for m1, handled meanwhile,
\* found the entry and sent nothing.
C16_Witness ==
    \E h, g \in Handlers :
        /\ h # g
        /\ req[h].pc = "awaitSend"
        /\ req[h].msg.id = "m1"
        /\ req[g].pc = "done"
        /\ \E i \in DispatchesOf("m1") : dispatches[i].by = g /\ ~dispatches[i].sent

\* ---- C17 ---------------------------------------------------------------
\* What the cache holds for an id: membership in the set, and the timestamp.
EntryOf(fc, ct, id) ==
    [inSet |-> id \in fc, inMap |-> id \in DOMAIN ct,
     t |-> IF id \in DOMAIN ct THEN ct[id] ELSE 0]

\* C17: eviction is lazy and per key. An entry leaves the cache only in a
\* wasFlaggedRecently call for the same id made after its TTL has expired,
\* and that call returns false; a call for one id leaves the entries of the
\* other ids as they are; nothing else removes an entry (rememberFlagged only
\* stamps the entry of its id with the current time, time passing changes
\* nothing).
C17_EvictionLazyPerKey ==
    [][ LET changed == {id \in Ids : EntryOf(flaggedCache', cacheTimes', id)
                                       # EntryOf(flaggedCache, cacheTimes, id)}
        IN  /\ Cardinality(changed) <= 1
            /\ \A id \in changed :
                 IF id \in DOMAIN cacheTimes' \/ id \in flaggedCache'
                 THEN /\ EntryOf(flaggedCache', cacheTimes', id)
                           = [inSet |-> TRUE, inMap |-> TRUE, t |-> now]
                      /\ lookup' = lookup
                 ELSE /\ lookup'.called
                      /\ lookup'.id = id
                      /\ lookup'.at = now
                      /\ lookup'.had
                      /\ lookup'.t = cacheTimes[id]
                      /\ now - cacheTimes[id] > FLAG_TTL_MS
                      /\ ~lookup'.ret
      ]_vars

\* A lookup of m1 after its TTL returned false and removed the entry of m1,
\* and the entry of m2 is still in both structures.
C17_Witness ==
    /\ lookup.called
    /\ lookup.id = "m1"
    /\ lookup.had
    /\ ~lookup.ret
    /\ lookup.at - lookup.t > FLAG_TTL_MS
    /\ "m1" \notin DOMAIN cacheTimes
    /\ "m1" \notin flaggedCache
    /\ "m2" \in DOMAIN cacheTimes
    /\ "m2" \in flaggedCache

C19_EveryCallAcknowledged ==
    \A h \in Handlers : (req[h].pc # "idle") ~> (req[h].res.status = 200)

\* A later call has been answered after two awaits while an earlier call is
\* still waiting for getMessage.
C19_Witness ==
    \E g, h \in Handlers :
        /\ g < h
        /\ req[g].pc = "awaitGet"
        /\ req[h].res = Ok200("ok")
        /\ Len(req[h].calls) = 2

\* ---- C20 ---------------------------------------------------------------
\* C20: the ids in flaggedCache are the keys of cacheTimes, in every state
\* the handlers can reach.
C20_SetAndMapInSync ==
    flaggedCache = DOMAIN cacheTimes

\* A message.new handler found the entry of m1 expired and removed it from
\* both structures.
C20_Witness ==
    /\ \E h \in Handlers :
          req[h].branch = "new" /\ req[h].touched /\ req[h].body.message.id = "m1"
    /\ "m1" \notin flaggedCache
    /\ "m1" \notin DOMAIN cacheTimes

====
